---- MODULE Spec2Model ----
(***************************************************************************)
(* Model of the JASP engine (src/JASP-Engine/engine.cpp): the main loop    *)
(* Engine::run, the message dispatch Engine::receiveMessages with its      *)
(* handlers, Engine::runAnalysis and the reentrant Engine::callback and    *)
(* PollMessagesFunctionForJaspResults which are entered while the runtime  *)
(* invocation made by runAnalysis is still on the stack.                   *)
(*                                                                         *)
(* The handlers are written as operators from an engine record (the        *)
(* member variables of Engine) to an engine record, in the order of the    *)
(* statements of the source; the actions compose them the way the call     *)
(* sites compose them.  The compute runtime (rbridge_run and friends) is   *)
(* external: it is a nondeterministic caller of the callback and of the    *)
(* poll hook that returns an arbitrary payload.                            *)
(***************************************************************************)
EXTENDS Integers, Sequences, FiniteSets, TLC

\* ------------------------------------------------------------------ bounds
MaxId       == 2    \* analysis ids 1..MaxId
MaxOpt      == 2    \* distinct option snapshots 1..MaxOpt
MaxRev      == 1    \* revisions 1..MaxRev
MaxProgress == 0    \* progress values -1..MaxProgress
MaxMsgs     == 3    \* messages the coordinator sends in one behaviour
MaxCalls    == 2    \* callback / poll calls in one runtime invocation
MaxRuns     == 2    \* runtime invocations in one behaviour

Ids        == 1..MaxId
Opts       == 1..MaxOpt
Revs       == 1..MaxRev
Progresses == (0 - 1)..MaxProgress

\* ------------------------------------------------------------ enumerations
\* performType as parsed by performTypeFromString; "abort" stands for every
\* value that is none of init, run, saveImg, editImg, rewriteImgs.
Performs == {"init", "run", "saveImg", "editImg", "rewriteImgs", "abort"}

\* typeRequest values that receiveMessages dispatches
HandledTypes == {"analysis", "filter", "rCode", "computeColumn", "pauseRequested",
                 "resuming", "moduleRequest", "stopRequested", "logCfg", "settings"}

\* an engineState name that is a valid enum value but has no case in the switch
UnhandledTypes == {"paused"}

\* payloads the runtime hands to the callback or returns: the "null" sentinel
\* or a result object
Payloads == {"null", "res"}

NoMsg == [typeRequest |-> ""]

AnalysisMsg(i, p, o, r, j, d) ==
    [typeRequest |-> "analysis", id |-> i, perform |-> p, options |-> o, revision |-> r,
     jaspResults |-> j, dynamicModuleCall |-> d]

\* The analysis requests of the coordinator: init and run requests of every
\* protocol (classic, jaspResults, dynamic module) with every options snapshot,
\* the other requests as classic ones with the first snapshot.
AnalysisMsgs ==
    { AnalysisMsg(i, p, o, r, j, "") : i \in Ids, p \in {"init", "run"}, o \in Opts, r \in Revs,
                                        j \in BOOLEAN }
    \cup { AnalysisMsg(i, p, o, r, FALSE, "call") : i \in Ids, p \in {"init", "run"}, o \in Opts,
                                                   r \in Revs }
    \cup { AnalysisMsg(i, p, 1, r, FALSE, "") : i \in Ids, p \in Performs \ {"init", "run"},
                                               r \in Revs }

\* the fields of a settings or resuming message that Engine::absorbSettings
\* reads
SettingsFields == {"ppi", "developerMode", "imageBackground", "languageCode"}

\* _ppi, _developerMode, _imageBackground and _langR after construction.  The
\* constructor does not assign them; the values stand for the initialisers of
\* the class declaration, and only their being different from the values the
\* messages carry matters.
InitSettings ==
    [ppi |-> 0, developerMode |-> FALSE, imageBackground |-> "white", languageCode |-> "en"]

\* the sets of fields a settings or resuming message is sent with
SettingsFieldSets == {{}, {"ppi", "developerMode"}, {"imageBackground", "languageCode"}}

\* a settings or resuming message: has is the set of fields present in it
SettingsMsg(t, has) ==
    [typeRequest |-> t, has |-> has, ppi |-> 1, developerMode |-> TRUE,
     imageBackground |-> "transparent", languageCode |-> "nl"]

SettingsMsgs == { SettingsMsg(t, has) : t \in {"settings", "resuming"}, has \in SettingsFieldSets }

OtherMsgs ==
    { [typeRequest |-> t] : t \in (HandledTypes \ {"analysis", "settings", "resuming"})
                                    \cup UnhandledTypes }
    \cup SettingsMsgs

\* an envelope that was received and parsed but has no typeRequest, or an empty
\* one
Untagged == [typeRequest |-> "", envelope |-> TRUE]

\* what Engine::receiveMessages can find in the channel; NoMsg is a timed out
\* receive or an empty buffer
Msgs == AnalysisMsgs \cup OtherMsgs \cup {Untagged}

\* ---------------------------------------------------------------- responses
Response(t, i, r, s, p, k) ==
    [typeRequest |-> t, id |-> i, revision |-> r, status |-> s, progress |-> p, kind |-> k]

\* a response that carries the tag only
TagResponse(t) == Response(t, 0, 0, "", 0 - 1, "ack")

\* ---------------------------------------------------------------- variables
VARIABLES
    engineState,            \* _engineState
    analysisStatus,         \* _analysisStatus
    analysisId,             \* _analysisId
    analysisOptions,        \* _analysisOptions (0: the initial empty string)
    analysisRevision,       \* _analysisRevision
    analysisJaspResults,    \* _analysisJaspResults
    dynamicModuleCall,      \* _dynamicModuleCall
    knowsAboutChange,       \* _currentAnalysisKnowsAboutChange
    analysisResultsString,  \* _analysisResultsString
    progress,               \* _progress
    settings,               \* _ppi, _developerMode, _imageBackground, _langR
    pc,                     \* "loop": top of the while of run; "runtime": inside
                            \* rbridge_run; "done": run returned; "crashed": an
                            \* exception left run
    runDepth,               \* number of runAnalysis frames on the stack
    out,                    \* responses sent by the step just taken, in order
    tmpOps,                 \* TempFiles operations of the step just taken
    directive,              \* what the step's callback returned to the runtime
    pollResult,             \* what the step's poll hook returned to the runtime
    step,                   \* the step just taken: its call site of receiveMessages,
                            \* the typeRequest it dispatched, and the status and state
                            \* before and right after that dispatch
    run,                    \* the request fields the runtime was invoked with
    hist,                   \* facts about the current runtime invocation
    nMsgs, nCalls, nRuns    \* counters for the bounds

engineVars == <<engineState, analysisStatus, analysisId, analysisOptions, analysisRevision,
                analysisJaspResults, dynamicModuleCall, knowsAboutChange,
                analysisResultsString, progress, settings>>

vars == <<engineState, analysisStatus, analysisId, analysisOptions, analysisRevision,
          analysisJaspResults, dynamicModuleCall, knowsAboutChange, analysisResultsString,
          progress, settings, pc, runDepth, out, tmpOps, directive, pollResult, step,
          run, hist, nMsgs, nCalls, nRuns>>

\* The member variables as one record, plus what a handler produces on the way:
\* out (responses sent), tmp (TempFiles calls), fatal (an exception was thrown),
\* ret (the return value of receiveMessages).
Eng ==
    [es |-> engineState, st |-> analysisStatus, id |-> analysisId, opts |-> analysisOptions,
     rev |-> analysisRevision, jr |-> analysisJaspResults, dmc |-> dynamicModuleCall,
     knows |-> knowsAboutChange, res |-> analysisResultsString, prog |-> progress,
     set |-> settings,
     out |-> <<>>, tmp |-> <<>>, fatal |-> FALSE, ret |-> FALSE]

SetEng(e) ==
    /\ engineState' = e.es
    /\ analysisStatus' = e.st
    /\ analysisId' = e.id
    /\ analysisOptions' = e.opts
    /\ analysisRevision' = e.rev
    /\ analysisJaspResults' = e.jr
    /\ dynamicModuleCall' = e.dmc
    /\ knowsAboutChange' = e.knows
    /\ analysisResultsString' = e.res
    /\ progress' = e.prog
    /\ settings' = e.set
    /\ out' = e.out
    /\ tmpOps' = e.tmp

Send(e, r) == [e EXCEPT !.out = Append(@, r)]

Throw(e) == [e EXCEPT !.fatal = TRUE]

\* ----------------------------------------------------------------- handlers
\* Engine::getStatusToAnalysisStatus
getStatusToAnalysisStatus(st) ==
    CASE st = "inited"                -> "inited"
      [] st \in {"running", "changed"} -> "running"
      [] st = "complete"              -> "complete"
      [] OTHER                        -> "fatalError"

\* Engine::sendAnalysisResults: the response carries the members _analysisId,
\* _analysisRevision and _progress as they are at the moment of the call.  The
\* payloads of the model carry no "status" of their own, so the response status
\* is the one derived from _analysisStatus.  kind records the caller:
\* "intermediate" from callback, "terminal" from runAnalysis, "image" from the
\* image operations.
sendAnalysisResults(e, kind) ==
    Send(e, Response("analysis", e.id, e.rev, getStatusToAnalysisStatus(e.st), e.prog, kind))

\* mutant of NewAnalysisStatus: a same-id run request changes the running
\* analysis under either protocol
NewAnalysisStatus_runAlwaysChanges(e, m) ==
    IF m.id = e.id /\ e.st = "running"
    THEN IF m.perform \in {"init", "run"} THEN "changed" ELSE "aborted"
    ELSE CASE m.perform = "init"        -> "toInit"
           [] m.perform = "run"         -> "toRun"
           [] m.perform = "saveImg"     -> "saveImg"
           [] m.perform = "editImg"     -> "editImg"
           [] m.perform = "rewriteImgs" -> "rewriteImgs"
           [] OTHER                     -> "error"

\* Engine::receiveAnalysisMessage, the status decision
NewAnalysisStatus(e, m) ==
    IF m.id = e.id /\ e.st = "running"
    THEN IF m.perform = "init" \/ (e.jr /\ m.perform = "run") THEN "changed" ELSE "aborted"
    ELSE CASE m.perform = "init"        -> "toInit"
           [] m.perform = "run"         -> "toRun"
           [] m.perform = "saveImg"     -> "saveImg"
           [] m.perform = "editImg"     -> "editImg"
           [] m.perform = "rewriteImgs" -> "rewriteImgs"
           [] OTHER                     -> "error"

\* mutant of CapturesRequest: a request with an unknown perform is stored too
CapturesRequest_alsoError(st) ==
    st \in {"toInit", "toRun", "changed", "saveImg", "editImg", "rewriteImgs", "error"}

\* mutant of CapturesRequest: an aborting message is stored too
CapturesRequest_alsoAborted(st) ==
    st \in {"toInit", "toRun", "changed", "aborted", "saveImg", "editImg", "rewriteImgs"}

\* mutant of CapturesRequest: a changed status does not store the request fields
CapturesRequest_notChanged(st) ==
    st \in {"toInit", "toRun", "saveImg", "editImg", "rewriteImgs"}

\* Engine::receiveAnalysisMessage, the statuses for which the request fields
\* are stored
CapturesRequest(st) ==
    st \in {"toInit", "toRun", "changed", "saveImg", "editImg", "rewriteImgs"}

\* mutant of receiveAnalysisMessage: the request is taken in every EngineState
receiveAnalysisMessage_anyState(e, m) ==
    LET st == NewAnalysisStatus(e, m)
        id == IF m.id = e.id /\ e.st = "running" THEN e.id ELSE m.id
        e1 == [e EXCEPT !.st = st, !.id = id]
    IN  IF CapturesRequest(st)
        THEN [e1 EXCEPT !.rev  = m.revision,
                        !.dmc  = m.dynamicModuleCall,
                        !.jr   = (m.dynamicModuleCall # "") \/ m.jaspResults,
                        !.es   = "analysis",
                        !.opts = m.options]
        ELSE e1

\* Engine::receiveAnalysisMessage
receiveAnalysisMessage(e, m) ==
    IF e.es # "idle" /\ e.es # "analysis"
    THEN Throw(e)
    ELSE LET st == NewAnalysisStatus(e, m)
             id == IF m.id = e.id /\ e.st = "running" THEN e.id ELSE m.id
             e1 == [e EXCEPT !.st = st, !.id = id]
         IN  IF CapturesRequest(st)
             THEN [e1 EXCEPT !.rev  = m.revision,
                             !.dmc  = m.dynamicModuleCall,
                             !.jr   = (m.dynamicModuleCall # "") \/ m.jaspResults,
                             !.es   = "analysis",
                             !.opts = m.options]
             ELSE e1

\* mutant of receiveFilterMessage: a filter message is rejected unless the
\* engine is idle
receiveFilterMessage_rejects(e) ==
    IF e.es # "idle" THEN Throw(e)
    ELSE [Send([e EXCEPT !.es = "filter"], TagResponse("filter")) EXCEPT !.es = "idle"]

\* Engine::receiveFilterMessage with Engine::runFilter: one response (result or
\* error), then idle
receiveFilterMessage(e) ==
    [Send([e EXCEPT !.es = "filter"], TagResponse("filter")) EXCEPT !.es = "idle"]

\* Engine::receiveRCodeMessage with runRCode / runRCodeCommander
receiveRCodeMessage(e) ==
    [Send([e EXCEPT !.es = "rCode"], TagResponse("rCode")) EXCEPT !.es = "idle"]

\* mutant of receiveComputeColumnMessage: _engineState is not set back to idle
receiveComputeColumnMessage_staysBusy(e) ==
    Send([e EXCEPT !.es = "computeColumn"], TagResponse("computeColumn"))

\* Engine::receiveComputeColumnMessage with Engine::runComputeColumn
receiveComputeColumnMessage(e) ==
    [Send([e EXCEPT !.es = "computeColumn"], TagResponse("computeColumn")) EXCEPT !.es = "idle"]

\* Engine::receiveModuleRequestMessage
receiveModuleRequestMessage(e) ==
    [Send([e EXCEPT !.es = "moduleRequest"], TagResponse("moduleRequest")) EXCEPT !.es = "idle"]

\* Engine::receiveLogCfg
receiveLogCfg(e) ==
    [Send(e, TagResponse("logCfg")) EXCEPT !.es = "idle"]

\* mutant of absorbSettings: a field the message omits falls back to its value
\* after construction
absorbSettings_resetsOmitted(e, m) ==
    [e EXCEPT !.set = [f \in SettingsFields |-> IF f \in m.has THEN m[f] ELSE InitSettings[f]]]

\* Engine::absorbSettings: jsonRequest.get(field, current value) for each of
\* the four fields
absorbSettings(e, m) ==
    [e EXCEPT !.set = [f \in SettingsFields |-> IF f \in m.has THEN m[f] ELSE e.set[f]]]

\* Engine::receiveSettings
receiveSettings(e, m) ==
    [Send(absorbSettings(e, m), TagResponse("settings")) EXCEPT !.es = "idle"]

\* the switch shared by Engine::pauseEngine and Engine::stopEngine
AbortInFlight(e) ==
    CASE e.es = "analysis"                  -> [e EXCEPT !.st = "aborted"]
      [] e.es \in {"filter", "computeColumn"} -> Throw(e)
      [] OTHER                              -> e

\* Engine::pauseEngine with sendEnginePaused
pauseEngine(e) ==
    LET e1 == AbortInFlight(e)
    IN  IF e1.fatal THEN e1
        ELSE Send([e1 EXCEPT !.es = "paused"], TagResponse("paused"))

\* mutant of stopEngine: the acknowledgment is sent but _engineState is kept
stopEngine_keepsState(e) ==
    LET e1 == AbortInFlight(e)
    IN  IF e1.fatal THEN e1
        ELSE Send(e1, TagResponse("stopped"))

\* Engine::stopEngine with sendEngineStopped
stopEngine(e) ==
    LET e1 == AbortInFlight(e)
    IN  IF e1.fatal THEN e1
        ELSE Send([e1 EXCEPT !.es = "stopped"], TagResponse("stopped"))

\* Engine::resumeEngine with sendEngineResumed
resumeEngine(e, m) ==
    Send([absorbSettings(e, m) EXCEPT !.es = "idle"], TagResponse("resuming"))

\* Engine::receiveMessages: ret is the return value, which is true for an
\* analysis message only.  The sendString("") that clears the send buffer is
\* no response and is left out.
receiveMessages(e, m) ==
    IF m.typeRequest = "" THEN [e EXCEPT !.ret = FALSE]
    ELSE CASE m.typeRequest = "analysis"       -> [receiveAnalysisMessage(e, m) EXCEPT !.ret = TRUE]
           [] m.typeRequest = "filter"         -> receiveFilterMessage(e)
           [] m.typeRequest = "rCode"          -> receiveRCodeMessage(e)
           [] m.typeRequest = "computeColumn"  -> receiveComputeColumnMessage(e)
           [] m.typeRequest = "pauseRequested" -> pauseEngine(e)
           [] m.typeRequest = "resuming"       -> resumeEngine(e, m)
           [] m.typeRequest = "moduleRequest"  -> receiveModuleRequestMessage(e)
           [] m.typeRequest = "stopRequested"  -> stopEngine(e)
           [] m.typeRequest = "logCfg"         -> receiveLogCfg(e)
           [] m.typeRequest = "settings"       -> receiveSettings(e, m)
           [] OTHER                            -> Throw(e)

\* mutant of imageOperation: the result of the image operation is not sent
imageOperation_silent(e) ==
    [e EXCEPT !.st = "empty", !.es = "idle", !.prog = 0 - 1]

\* Engine::saveImage, Engine::editImage, Engine::rewriteImages: status
\* complete, one response, then empty and idle
imageOperation(e) ==
    [sendAnalysisResults([e EXCEPT !.st = "complete", !.prog = 0 - 1], "image")
        EXCEPT !.st = "empty", !.es = "idle"]

\* mutant of runAnalysisEntry: a request to run is initialised first
runAnalysisEntry_initsFirst(e) ==
    CASE e.st \in {"saveImg", "editImg", "rewriteImgs"} -> imageOperation(e)
      [] e.st \in {"empty", "aborted"}                  -> [e EXCEPT !.st = "empty", !.es = "idle"]
      [] OTHER ->
            [e EXCEPT !.st = IF e.st \in {"toInit", "toRun"} /\ ~e.jr THEN "initing" ELSE "running",
                      !.knows = FALSE]

\* Engine::runAnalysis, the part before the runtime is invoked.  The result
\* has status initing or running exactly when the runtime is to be invoked.
runAnalysisEntry(e) ==
    CASE e.st \in {"saveImg", "editImg", "rewriteImgs"} -> imageOperation(e)
      [] e.st \in {"empty", "aborted"}                  -> [e EXCEPT !.st = "empty", !.es = "idle"]
      [] OTHER ->
            [e EXCEPT !.st = IF e.st = "toInit" /\ ~e.jr THEN "initing" ELSE "running",
                      !.knows = FALSE]

\* mutant of SuppressesResults: a pending restart does not keep runAnalysis
\* from sending the payload
SuppressesResults_notToInit(st) == st \in {"aborted", "error", "exception"}

\* Engine::runAnalysis: the statuses for which the returned payload is dropped
SuppressesResults(st) == st \in {"toInit", "aborted", "error", "exception"}

\* mutant of NeedsRestart: a "null" payload of an informed runtime is taken as
\* the result
NeedsRestart_uninformedOnly(st, knows, res) == st = "changed" /\ knows = FALSE

\* Engine::runAnalysis: the changed analysis has to be run again
NeedsRestart(st, knows, res) == st = "changed" /\ (knows = FALSE \/ res = "null")

\* Engine::runAnalysis: whether it calls receiveMessages() once the runtime
\* has returned
ReceivesAfterRun(e) == ~e.jr /\ e.st \in {"initing", "running"}

\* Engine::runAnalysis from the return of the runtime with payload res up to
\* its if / else if / else; m is what its receiveMessages() finds in the channel
afterRunReceive(e, res, m) ==
    LET e0 == [e EXCEPT !.res = res]
    IN  IF ReceivesAfterRun(e0) THEN receiveMessages(e0, m) ELSE e0

\* mutant of finishRun: the result is sent as inited and again as complete
finishRun_sendsTwice(e) ==
    LET e2 == IF ~e.jr
              THEN sendAnalysisResults(
                      sendAnalysisResults([e EXCEPT !.st = "inited", !.prog = 0 - 1], "terminal"),
                      "terminal")
              ELSE e
    IN  [e2 EXCEPT !.es = "idle", !.st = "empty",
                   !.tmp = Append(@, [op |-> "removeNonKeepFiles", id |-> e2.id])]

\* mutant of finishRun: _engineState is not set back to idle
finishRun_keepsState(e) ==
    LET e2 == IF ~e.jr
              THEN sendAnalysisResults(
                      [e EXCEPT !.st = IF e.st = "initing" THEN "inited" ELSE "complete",
                                !.prog = 0 - 1], "terminal")
              ELSE e
    IN  [e2 EXCEPT !.st = "empty",
                   !.tmp = Append(@, [op |-> "removeNonKeepFiles", id |-> e2.id])]

\* Engine::runAnalysis, the else branch: the payload is the result
finishRun(e) ==
    LET e2 == IF ~e.jr
              THEN sendAnalysisResults(
                      [e EXCEPT !.st = IF e.st = "initing" THEN "inited" ELSE "complete",
                                !.prog = 0 - 1], "terminal")
              ELSE e
    IN  [e2 EXCEPT !.es = "idle", !.st = "empty",
                   !.tmp = Append(@, [op |-> "removeNonKeepFiles", id |-> e2.id])]

\* Engine::runAnalysis, the if / else if / else after the runtime returned
runAnalysisReturn(e1) ==
    IF e1.fatal THEN e1
    ELSE IF SuppressesResults(e1.st) THEN e1
    ELSE IF NeedsRestart(e1.st, e1.knows, e1.res)
         THEN [e1 EXCEPT !.st = "toInit",
                         !.tmp = IF e1.res = "null"
                                 THEN Append(@, [op |-> "deleteList", id |-> e1.id]) ELSE @]
    ELSE finishRun(e1)

\* mutant of CallbackAborts: a pending request for another analysis does not
\* stop the callback
CallbackAborts_abortedOnly(st) == st = "aborted"

\* Engine::callback: the statuses for which it returns aborted at once
CallbackAborts(st) == st \in {"aborted", "toInit", "toRun"}

\* Engine::callback after its receiveMessages(): the engine record and the
\* directive returned to the runtime
callbackBody(e, results, prog) ==
    IF CallbackAborts(e.st) THEN [e |-> e, dir |-> [status |-> "aborted", options |-> 0]]
    ELSE LET e1 == IF e.st = "changed" /\ e.knows
                   THEN [e EXCEPT !.st = "running", !.knows = FALSE] ELSE e
             e2 == IF results # "null"
                   THEN sendAnalysisResults([e1 EXCEPT !.res = results, !.prog = prog], "intermediate")
                   ELSE IF prog >= 0 /\ e1.st = "running"
                        THEN sendAnalysisResults([e1 EXCEPT !.res = "", !.prog = prog], "intermediate")
                        ELSE e1
         IN  IF e2.st = "changed"
             THEN [e |-> [e2 EXCEPT !.knows = TRUE],
                   dir |-> [status |-> "changed", options |-> e2.opts]]
             ELSE IF e2.st = "aborted"
                  THEN [e |-> e2, dir |-> [status |-> "aborted", options |-> 0]]
                  ELSE [e |-> e2, dir |-> [status |-> "ok", options |-> 0]]

\* PollMessagesFunctionForJaspResults after its receiveMessages(): the value
\* returned to the runtime
pollReturn(e) ==
    IF e.ret
    THEN IF e.es = "paused" THEN TRUE
         ELSE e.st \in {"changed", "aborted", "stopped"}
    ELSE FALSE

\* ------------------------------------------------------------------ history
NoRun == [id |-> 0, revision |-> 0, options |-> 0, perform |-> "", rich |-> FALSE, entry |-> ""]

NoDirective == [status |-> "", options |-> 0]

NoChange == [options |-> 0, invocation |-> 0]

\* superseded : an analysis message for another id was dispatched while the
\*              status was running, during the current invocation
\* pendingNew : the id of that message, when it was dispatched by the callback with
\*              perform init or run, until the runtime is invoked again or an
\*              analysis, pause or stop message is dispatched
\* change     : the options of the same-id message that turned running into
\*              changed, and the invocation it happened in, until a callback
\*              returns or an analysis, pause or stop message is dispatched
\* cbChange   : the value of change the callback of this step found
\* toldAbort, toldChanged : the callback returned that directive during the
\*              current invocation
\* retStatus  : the status runAnalysis found after the runtime returned
\* quiet      : no message was dispatched since the runtime was invoked
\* log        : the kinds of the analysis responses the engine sent for the
\*              current invocation, in order
NoHist ==
    [superseded |-> FALSE, pendingNew |-> 0, change |-> NoChange, cbChange |-> NoChange,
     toldAbort |-> FALSE, toldChanged |-> FALSE, retStatus |-> "", quiet |-> TRUE,
     log |-> <<>>]

StepRecord(site, m, e, e1) ==
    [site |-> site, msg |-> m.typeRequest, stPre |-> e.st, esPre |-> e.es, stPost |-> e1.st, esPost |-> e1.es]

\* the history after receiveMessages at a call site took e to e1 on message m
Dispatched(h, site, e, m, e1) ==
    IF m.typeRequest = "" THEN h
    ELSE IF e1.fatal THEN [h EXCEPT !.quiet = FALSE]
    ELSE IF m.typeRequest = "analysis"
         THEN [h EXCEPT !.quiet = FALSE,
                        !.superseded = @ \/ (e.st = "running" /\ m.id # e.id),
                        !.pendingNew = IF /\ e.st = "running"
                                          /\ m.id # e.id
                                          /\ m.perform \in {"init", "run"}
                                          /\ site = "callback"
                                       THEN m.id ELSE 0,
                        !.change = IF e.st = "running" /\ e1.st = "changed"
                                   THEN [options |-> m.options, invocation |-> nRuns]
                                   ELSE NoChange]
         ELSE IF m.typeRequest \in {"pauseRequested", "stopRequested"}
              THEN [h EXCEPT !.quiet = FALSE, !.pendingNew = 0, !.change = NoChange]
              ELSE [h EXCEPT !.quiet = FALSE]

AnalysisKinds(o) ==
    [i \in 1..Len(SelectSeq(o, LAMBDA r : r.kind \in {"intermediate", "terminal"})) |->
        SelectSeq(o, LAMBDA r : r.kind \in {"intermediate", "terminal"})[i].kind]

\* --------------------------------------------------------------------- steps
\* mutant of RunsAnalysisAfterReceive: every call site of receiveMessages goes
\* on to run the analysis it stored
RunsAnalysisAfterReceive_everySite(site, es) == es = "analysis"

\* Engine::run: after receiveMessages(100) only the main loop goes on to the
\* switch that calls runAnalysis; the reentrant call sites (callback, the poll
\* hook, the receiveMessages of runAnalysis) return to their caller.
RunsAnalysisAfterReceive(site, es) == site = "loop" /\ es = "analysis"

\* the runtime is invoked: runAnalysis passed its early returns
Invokes(site, e) ==
    /\ RunsAnalysisAfterReceive(site, e.es)
    /\ runAnalysisEntry(e).st \in {"initing", "running"}

\* the frame of runAnalysis that blocks in rbridge_run / rbridge_runModuleCall
InvokeRuntime(e, h) ==
    /\ nRuns < MaxRuns
    /\ SetEng(e)
    /\ pc' = "runtime"
    /\ runDepth' = runDepth + 1
    /\ run' = [id |-> e.id, revision |-> e.rev, options |-> e.opts,
               perform |-> IF e.st = "initing" THEN "init" ELSE "run",
               rich |-> e.jr, entry |-> IF e.dmc # "" THEN "rbridge_runModuleCall" ELSE "rbridge_run"]
    /\ hist' = [NoHist EXCEPT !.change = h.change]
    /\ nCalls' = 0
    /\ nRuns' = nRuns + 1

Crash(e) ==
    /\ SetEng(e)
    /\ pc' = "crashed"
    /\ UNCHANGED <<runDepth, run, hist, nCalls, nRuns>>

CanReceive(m) == m \in Msgs \cup {NoMsg} /\ (m # NoMsg => nMsgs < MaxMsgs)

Count(m) == nMsgs' = IF m = NoMsg THEN nMsgs ELSE nMsgs + 1

Init ==
    /\ engineState = "initializing"
    /\ analysisStatus = "empty"
    /\ analysisId = 0 - 1
    /\ analysisOptions = 0
    /\ analysisRevision = 0 - 1
    /\ analysisJaspResults = FALSE
    /\ dynamicModuleCall = ""
    /\ knowsAboutChange = FALSE
    /\ analysisResultsString = ""
    /\ progress = 0 - 1
    /\ settings = InitSettings
    /\ pc = "loop"
    /\ runDepth = 0
    /\ out = <<>>
    /\ tmpOps = <<>>
    /\ directive = NoDirective
    /\ pollResult = FALSE
    /\ step = [site |-> "", msg |-> "", stPre |-> "empty", esPre |-> "initializing",
               stPost |-> "empty", esPost |-> "initializing"]
    /\ run = NoRun
    /\ hist = NoHist
    /\ nMsgs = 0
    /\ nCalls = 0
    /\ nRuns = 0

\* Engine::initialize, called by the first iteration of the loop of run
Initialize ==
    /\ pc = "loop"
    /\ engineState = "initializing"
    /\ SetEng(Send([Eng EXCEPT !.es = "idle"], TagResponse("resuming")))
    /\ step' = StepRecord("initialize", NoMsg, Eng, [Eng EXCEPT !.es = "idle"])
    /\ UNCHANGED <<pc, runDepth, directive, pollResult, run, hist, nMsgs, nCalls, nRuns>>

\* One iteration of the while of Engine::run: receiveMessages(100), then the
\* switch on _engineState, with runAnalysis up to the call of the runtime.
MainLoop(m) ==
    /\ pc = "loop"
    /\ engineState \notin {"stopped", "initializing"}
    /\ CanReceive(m)
    /\ Count(m)
    /\ LET e  == Eng
           e1 == receiveMessages(e, m)
           h  == Dispatched(hist, "loop", e, m, e1)
       IN  /\ step' = StepRecord("loop", m, e, e1)
           /\ directive' = NoDirective
           /\ pollResult' = FALSE
           /\ IF e1.fatal \/ e1.es = "resuming" THEN Crash(e1)
              ELSE IF Invokes("loop", e1) THEN InvokeRuntime(runAnalysisEntry(e1), h)
              ELSE /\ SetEng(IF RunsAnalysisAfterReceive("loop", e1.es)
                             THEN runAnalysisEntry(e1) ELSE e1)
                   /\ hist' = h
                   /\ UNCHANGED <<pc, runDepth, run, nCalls, nRuns>>

\* The while condition of Engine::run fails: the engine was stopped, or the
\* parent process is gone.
LoopExit ==
    /\ pc = "loop"
    /\ \E parentRunning \in BOOLEAN : engineState = "stopped" \/ ~parentRunning
    /\ pc' = "done"
    /\ out' = <<>>
    /\ tmpOps' = <<>>
    /\ step' = [step EXCEPT !.site = "exit", !.msg = ""]
    /\ UNCHANGED <<engineVars, runDepth, directive, pollResult, run, hist, nMsgs, nCalls, nRuns>>

\* The runtime calls Engine::callback(results, prog).  A runtime that was told
\* to abort makes no further call (the contract of the runtime adapter).
Callback(m, results, prog) ==
    /\ pc = "runtime"
    /\ run.entry = "rbridge_run"
    /\ ~hist.toldAbort
    /\ nCalls < MaxCalls
    /\ CanReceive(m)
    /\ Count(m)
    /\ LET e  == Eng
           e1 == receiveMessages(e, m)
           h  == Dispatched(hist, "callback", e, m, e1)
           cb == callbackBody(e1, results, prog)
       IN  /\ step' = StepRecord("callback", m, e, e1)
           /\ pollResult' = FALSE
           /\ IF e1.fatal THEN Crash(e1) /\ directive' = NoDirective
              ELSE IF Invokes("callback", e1)
                   THEN InvokeRuntime(runAnalysisEntry(e1), h) /\ directive' = NoDirective
              ELSE /\ SetEng(cb.e)
                   /\ directive' = cb.dir
                   /\ hist' = [h EXCEPT !.toldAbort = @ \/ cb.dir.status = "aborted",
                                        !.toldChanged = @ \/ cb.dir.status = "changed",
                                        !.cbChange = h.change,
                                        !.change = NoChange,
                                        !.log = @ \o AnalysisKinds(cb.e.out)]
                   /\ nCalls' = nCalls + 1
                   /\ UNCHANGED <<pc, runDepth, run, nRuns>>

\* The runtime of a rich-results analysis calls PollMessagesFunctionForJaspResults.
Poll(m) ==
    /\ pc = "runtime"
    /\ run.rich
    /\ ~hist.toldAbort
    /\ nCalls < MaxCalls
    /\ CanReceive(m)
    /\ Count(m)
    /\ LET e  == Eng
           e1 == receiveMessages(e, m)
           h  == Dispatched(hist, "poll", e, m, e1)
       IN  /\ step' = StepRecord("poll", m, e, e1)
           /\ directive' = NoDirective
           /\ IF e1.fatal THEN Crash(e1) /\ pollResult' = FALSE
              ELSE IF Invokes("poll", e1)
                   THEN InvokeRuntime(runAnalysisEntry(e1), h) /\ pollResult' = FALSE
              ELSE /\ SetEng(e1)
                   /\ pollResult' = pollReturn(e1)
                   /\ hist' = h
                   /\ nCalls' = nCalls + 1
                   /\ UNCHANGED <<pc, runDepth, run, nRuns>>

\* The runtime of a rich-results analysis calls SendFunctionForJaspresults with
\* a message of its own making.
RuntimeSend ==
    /\ pc = "runtime"
    /\ run.rich
    /\ ~hist.toldAbort
    /\ nCalls < MaxCalls
    /\ SetEng(Send(Eng, Response("analysis", run.id, run.revision, "running", 0 - 1, "runtime")))
    /\ step' = StepRecord("send", NoMsg, Eng, Eng)
    /\ directive' = NoDirective
    /\ pollResult' = FALSE
    /\ nCalls' = nCalls + 1
    /\ UNCHANGED <<pc, runDepth, run, hist, nMsgs, nRuns>>

\* The runtime returns payload res to Engine::runAnalysis, which finishes, and
\* the iteration of the loop of run ends.
RuntimeReturn(res, m) ==
    /\ pc = "runtime"
    /\ CanReceive(m)
    /\ (m # NoMsg => ReceivesAfterRun(Eng))
    /\ Count(m)
    /\ LET e  == Eng
           e1 == afterRunReceive(e, res, m)
           h  == Dispatched(hist, "runAnalysis", e, m, e1)
           e2 == runAnalysisReturn(e1)
       IN  /\ step' = StepRecord("runAnalysis", m, e, e1)
           /\ directive' = NoDirective
           /\ pollResult' = FALSE
           /\ SetEng(e2)
           /\ hist' = [h EXCEPT !.retStatus = e1.st, !.log = @ \o AnalysisKinds(e2.out)]
           /\ IF e1.fatal
              THEN pc' = "crashed" /\ runDepth' = runDepth
              ELSE /\ runDepth' = runDepth - 1
                   /\ pc' = IF runDepth = 1 THEN "loop" ELSE "runtime"
           /\ UNCHANGED <<run, nCalls, nRuns>>

Next ==
    \/ Initialize
    \/ \E m \in Msgs \cup {NoMsg} : MainLoop(m)
    \/ LoopExit
    \/ \E m \in Msgs \cup {NoMsg}, results \in Payloads, prog \in Progresses : Callback(m, results, prog)
    \/ \E m \in Msgs \cup {NoMsg} : Poll(m)
    \/ RuntimeSend
    \/ \E res \in Payloads, m \in Msgs \cup {NoMsg} : RuntimeReturn(res, m)

Spec == Init /\ [][Next]_vars

TypeOK ==
    /\ engineState \in {"initializing", "idle", "analysis", "paused", "stopped"}
    /\ analysisStatus \in {"empty", "toInit", "initing", "toRun", "running", "changed", "aborted",
                           "saveImg", "editImg", "rewriteImgs", "error"}
    /\ pc \in {"loop", "runtime", "done", "crashed"}
    /\ runDepth \in 0..MaxRuns
    /\ Len(out) <= 2

\* ------------------------------------------------------------------- claims
\* the channel is polled in this state: by the main loop, or by the callback
\* or poll hook of the runtime invocation in flight
Polled ==
    \/ pc = "loop" /\ engineState \notin {"initializing", "stopped"}
    \/ pc = "runtime"

ActiveOrPending ==
    {"toInit", "toRun", "initing", "running", "changed", "saveImg", "editImg", "rewriteImgs"}

AnalysisResponses(o) == SelectSeq(o, LAMBDA r : r.kind \in {"intermediate", "terminal"})

\* C1: runAnalysis is never entered while a previous runAnalysis is still on
\* the stack: at most one frame of runAnalysis exists at any time.
C1_NoNestedRunAnalysis == runDepth <= 1

\* C1 witness: a reentrant dispatch handled an analysis message while the
\* runtime invocation of runAnalysis was on the stack.
C1_Witness ==
    /\ pc = "runtime"
    /\ runDepth = 1
    /\ step.site \in {"callback", "poll"}
    /\ step.msg = "analysis"

\* C2: once an analysis message for another id was dispatched while the status
\* was running, the engine emits no further intermediate or terminal response
\* for the runtime invocation in flight.
C2_NoResponseAfterSupersede ==
    (hist.superseded /\ step.site \in {"callback", "runAnalysis"} /\ pc # "crashed")
        => AnalysisResponses(out) = <<>>

\* C3: a request for another id with perform init or run that the callback
\* dispatched is never dropped: the engine is not back at idle / empty before
\* the runtime was invoked for it.
C3_NewRequestNotDropped ==
    hist.pendingNew # 0 => ~(pc = "loop" /\ engineState = "idle" /\ analysisStatus = "empty")

\* C4: under the non-rich protocol the responses the engine sends for one
\* runtime invocation contain at most one terminal response, and it is the last
\* of them: every intermediate response precedes it.
C4_TerminalLast ==
    ~run.rich => \A i \in 1..Len(hist.log) : hist.log[i] = "terminal" => i = Len(hist.log)

\* C4 witness: an invocation sent an intermediate response and then its
\* terminal response.
C4_Witness ==
    /\ ~run.rich
    /\ Len(hist.log) >= 2
    /\ hist.log[1] = "intermediate"
    /\ hist.log[Len(hist.log)] = "terminal"

\* C5: a pauseRequested or stopRequested message handled while a runtime
\* invocation is in flight with status initing, running or changed leaves the
\* status aborted when the handler finishes.
C5_PauseStopAborts ==
    (/\ step.msg \in {"pauseRequested", "stopRequested"}
     /\ step.site \in {"callback", "poll", "runAnalysis"}
     /\ step.stPre \in {"initing", "running", "changed"})
        => step.stPost = "aborted"

\* C6 as stated: wherever the channel is polled, EngineState is analysis iff
\* AnalysisStatus is active or pending.
C6_AnalysisIffActive ==
    Polled => (engineState = "analysis" <=> analysisStatus \in ActiveOrPending)

\* C6 amended: wherever the channel is polled, EngineState analysis implies
\* that AnalysisStatus is active, pending, aborted or error.
C6_AnalysisImpliesLive ==
    (Polled /\ engineState = "analysis") => analysisStatus \in ActiveOrPending \cup {"aborted", "error"}

\* C6 witness: the main loop polls with EngineState analysis and an analysis
\* waiting to be run again.
C6_Witness ==
    /\ pc = "loop"
    /\ engineState = "analysis"
    /\ analysisStatus = "toInit"
    /\ step.site = "runAnalysis"

\* C7: EngineState changes from paused to idle only by a resuming message.
C7_PausedUntilResumed ==
    [][(engineState = "paused" /\ engineState' = "idle") => step'.msg = "resuming"]_vars

\* C8: once EngineState is stopped it stays stopped and no further message is
\* dispatched.
C8_StoppedIsTerminal ==
    [][engineState = "stopped" => (engineState' = "stopped" /\ step'.msg = "")]_vars

\* C9 as stated: the first callback to return after a same-id message turned
\* running into changed (no analysis, pause or stop message in between) returns
\* the changed directive with the options of that message.
C9_NextCallbackChanged ==
    (step.site = "callback" /\ pc # "crashed" /\ hist.cbChange.options # 0)
        => directive = [status |-> "changed", options |-> hist.cbChange.options]

\* C9 amended: the same, for the first callback to return within the runtime
\* invocation in which the message was dispatched.
C9_NextCallbackChangedSameRun ==
    (/\ step.site = "callback"
     /\ pc # "crashed"
     /\ hist.cbChange.options # 0
     /\ hist.cbChange.invocation = nRuns)
        => directive = [status |-> "changed", options |-> hist.cbChange.options]

\* C9 witness: the poll hook dispatched the same-id message with other options
\* than the run was started with, and the next callback returned.
C9_Witness ==
    /\ step.site = "callback"
    /\ step.msg = ""
    /\ hist.cbChange.options # 0
    /\ hist.cbChange.invocation = nRuns
    /\ hist.cbChange.options # run.options
    /\ directive.status = "changed"

\* C10: when the runtime returns with status changed and the callback never
\* returned the changed directive in this invocation or the payload is "null",
\* runAnalysis sets toInit and sends nothing, and it discards the temp files of
\* the analysis id exactly when the payload is "null".
C10_ForcedRestart ==
    (/\ step.site = "runAnalysis"
     /\ pc # "crashed"
     /\ hist.retStatus = "changed"
     /\ (~hist.toldChanged \/ analysisResultsString = "null"))
        => /\ analysisStatus = "toInit"
           /\ out = <<>>
           /\ tmpOps = IF analysisResultsString = "null"
                       THEN <<[op |-> "deleteList", id |-> analysisId]>> ELSE <<>>

\* C10 witness: the runtime was told about the change and returned "null".
C10_Witness ==
    /\ step.site = "runAnalysis"
    /\ hist.retStatus = "changed"
    /\ hist.toldChanged
    /\ analysisResultsString = "null"
    /\ analysisStatus = "toInit"

OneShotTypes == {"filter", "rCode", "computeColumn", "moduleRequest", "logCfg", "settings"}

\* C13: wherever the channel is polled, whatever EngineState is, a filter,
\* rCode, computeColumn, moduleRequest, logCfg or settings message is handled
\* without a fatal error, its handler sends exactly one response, which carries
\* the typeRequest of the message, and EngineState is idle when it returns.
C13_OneShotAlwaysExecuted ==
    /\ Polled
          => \A m \in Msgs :
                m.typeRequest \in OneShotTypes
                    => LET e1 == receiveMessages(Eng, m)
                       IN  /\ ~e1.fatal
                           /\ e1.out = <<TagResponse(m.typeRequest)>>
                           /\ e1.es = "idle"
    /\ step.msg \in OneShotTypes => (step.esPost = "idle" /\ pc # "crashed")
    /\ (step.msg \in OneShotTypes /\ step.site = "loop")
          => (engineState = "idle" /\ out = <<TagResponse(step.msg)>>)

\* C13 witness: the callback dispatched a computeColumn message while
\* EngineState was analysis.
C13_Witness ==
    /\ step.site = "callback"
    /\ step.msg = "computeColumn"
    /\ step.esPre = "analysis"
    /\ step.esPost = "idle"
    /\ engineState = "idle"

\* C14: an analysis message dispatched while EngineState is neither idle nor
\* analysis raises a fatal error, and AnalysisStatus, the analysis id, the
\* stored request fields and EngineState are what they were before.
C14_AnalysisRejectedUnchanged ==
    /\ (Polled /\ engineState \notin {"idle", "analysis"})
          => \A m \in AnalysisMsgs :
                LET e1 == receiveMessages(Eng, m)
                IN  /\ e1.fatal
                    /\ e1.out = <<>>
                    /\ <<e1.es, e1.st, e1.id, e1.opts, e1.rev, e1.jr, e1.dmc>>
                          = <<engineState, analysisStatus, analysisId, analysisOptions,
                              analysisRevision, analysisJaspResults, dynamicModuleCall>>
    /\ (step.msg = "analysis" /\ step.esPre \notin {"idle", "analysis"})
          => /\ pc = "crashed"
             /\ step.stPost = step.stPre
             /\ step.esPost = step.esPre
             /\ analysisStatus = step.stPre
             /\ engineState = step.esPre
             /\ out = <<>>

\* C14 witness: an analysis message was dispatched while the engine was paused.
C14_Witness ==
    /\ step.msg = "analysis"
    /\ step.esPre = "paused"
    /\ pc = "crashed"
    /\ engineState = "paused"

\* receiveMessages takes message m from the channel in this step, at any of
\* its call sites
Receives(m) ==
    \/ MainLoop(m)
    \/ \E results \in Payloads, prog \in Progresses : Callback(m, results, prog)
    \/ Poll(m)
    \/ \E res \in Payloads : RuntimeReturn(res, m)

\* C15: every received envelope whose typeRequest is not one of the ten handled
\* types ends in a fatal error: it is not silently ignored, nothing is sent and
\* EngineState and AnalysisStatus are unchanged.
C15_UnhandledIsFatal ==
    [][\A m \in Msgs :
          (m.typeRequest \notin HandledTypes /\ Receives(m))
              => /\ pc' = "crashed"
                 /\ out' = <<>>
                 /\ engineState' = engineState
                 /\ analysisStatus' = analysisStatus]_vars

\* C16: the settings change only in a step that handles a settings or resuming
\* message, and handling such a message sets each field the message carries to
\* the carried value and leaves each field it omits at its previous value.
C16_SettingsFrame ==
    /\ [][settings' # settings
             => /\ step'.msg \in {"settings", "resuming"}
                /\ \E m \in SettingsMsgs :
                      /\ m.typeRequest = step'.msg
                      /\ settings' = receiveMessages(Eng, m).set]_vars
    /\ [](Polled
             => \A m \in SettingsMsgs :
                   \A f \in SettingsFields :
                      receiveMessages(Eng, m).set[f] = IF f \in m.has THEN m[f] ELSE settings[f])

\* C16 witness: two settings or resuming messages with disjoint fields were
\* handled, and the fields the second one omits kept the values of the first.
C16_Witness ==
    /\ step.msg \in {"settings", "resuming"}
    /\ settings.ppi = 1
    /\ settings.languageCode = "nl"

\* C17: wherever an analysis message can be dispatched without a fatal error,
\* for every message: if its id is the current id and the status is running,
\* the status becomes changed when perform is init, or run with the running
\* analysis using rich results, and aborted otherwise, and the id stays; in
\* every other case the id of the message is adopted and perform init, run,
\* saveImg, editImg, rewriteImgs gives toInit, toRun, saveImg, editImg,
\* rewriteImgs and any other perform gives error.
C17_StatusOfRequest ==
    /\ (Polled /\ engineState \in {"idle", "analysis"})
          => \A m \in AnalysisMsgs :
                LET e1 == receiveMessages(Eng, m)
                IN  /\ ~e1.fatal
                    /\ IF m.id = analysisId /\ analysisStatus = "running"
                       THEN /\ e1.id = analysisId
                            /\ e1.st = IF \/ m.perform = "init"
                                          \/ (m.perform = "run" /\ analysisJaspResults)
                                       THEN "changed" ELSE "aborted"
                       ELSE /\ e1.id = m.id
                            /\ \/ m.perform = "init" /\ e1.st = "toInit"
                               \/ m.perform = "run" /\ e1.st = "toRun"
                               \/ m.perform = "saveImg" /\ e1.st = "saveImg"
                               \/ m.perform = "editImg" /\ e1.st = "editImg"
                               \/ m.perform = "rewriteImgs" /\ e1.st = "rewriteImgs"
                               \/ /\ m.perform \notin {"init", "run", "saveImg", "editImg",
                                                        "rewriteImgs"}
                                  /\ e1.st = "error"
    /\ (step.msg = "analysis" /\ pc # "crashed")
          => IF step.stPre = "running"
             THEN step.stPost \in {"changed", "aborted", "toInit", "toRun", "saveImg", "editImg",
                                   "rewriteImgs", "error"}
             ELSE step.stPost \in {"toInit", "toRun", "saveImg", "editImg", "rewriteImgs", "error"}

\* C17 witness: a message for the id of the running rich-results analysis was
\* dispatched and the status became changed.
C17_Witness ==
    /\ step.msg = "analysis"
    /\ step.stPre = "running"
    /\ step.stPost = "changed"
    /\ run.rich
    /\ run.perform = "run"
    /\ pc = "runtime"

\* C18 as stated: when AnalysisStatus is aborted, toInit or toRun after the
\* dispatch of a callback invocation, the callback returns the aborted
\* directive and no response is sent in that invocation.
C18_AbortedCallbackSilent ==
    (step.site = "callback" /\ pc # "crashed" /\ step.stPost \in {"aborted", "toInit", "toRun"})
        => (directive.status = "aborted" /\ out = <<>>)

\* C18 amended: in that case the callback returns the aborted directive and
\* sends no analysis response: the only response of the invocation, if any, is
\* the one the handler of the dispatched message sent, and the status and the
\* stored payload are as the dispatch left them.
C18_AbortedCallbackSendsNoResult ==
    (step.site = "callback" /\ pc # "crashed" /\ step.stPost \in {"aborted", "toInit", "toRun"})
        => /\ directive.status = "aborted"
           /\ analysisStatus = step.stPost
           /\ \/ out = <<>>
              \/ /\ step.msg \notin {"", "analysis"}
                 /\ Len(out) = 1
                 /\ out[1].kind = "ack"

\* C18 witness: the callback dispatched a pauseRequested message while
\* EngineState was analysis; the handler acknowledged it and the callback
\* returned aborted.
C18_Witness ==
    /\ step.site = "callback"
    /\ step.msg = "pauseRequested"
    /\ step.stPost = "aborted"
    /\ directive.status = "aborted"
    /\ out = <<TagResponse("paused")>>

\* C19: when the runtime has returned and runAnalysis finds the status toInit,
\* aborted, error or exception, it sends no analysis response, makes no call
\* to TempFiles, and leaves the status and EngineState as it found them.
C19_SuppressedReturn ==
    (/\ step.site = "runAnalysis"
     /\ pc # "crashed"
     /\ hist.retStatus \in {"toInit", "aborted", "error", "exception"})
        => /\ AnalysisResponses(out) = <<>>
           /\ \A i \in 1..Len(out) : out[i].typeRequest # "analysis"
           /\ tmpOps = <<>>
           /\ analysisStatus = hist.retStatus
           /\ engineState = step.esPost
           /\ Len(SelectSeq(hist.log, LAMBDA k : k = "terminal")) = 0

\* C19 witness: the runtime returned a payload after a request for another
\* analysis had set the status toInit, and nothing was sent.
C19_Witness ==
    /\ step.site = "runAnalysis"
    /\ pc = "loop"
    /\ hist.retStatus = "toInit"
    /\ analysisResultsString = "res"
    /\ out = <<>>
    /\ analysisId # run.id

\* C20: a pending analysis (status toInit or toRun with EngineState analysis at
\* the top of the main loop) is not dropped by a filter, rCode, computeColumn,
\* moduleRequest, logCfg or settings message: after the iteration that handled
\* such a message the runtime has been invoked for it, or it is still pending
\* with EngineState analysis so that a later iteration runs it.
C20_PendingSurvivesOneShot ==
    (/\ step.site = "loop"
     /\ step.msg \in OneShotTypes
     /\ step.stPre \in {"toInit", "toRun"}
     /\ step.esPre = "analysis")
        => \/ pc = "runtime"
           \/ engineState = "analysis" /\ analysisStatus = step.stPre

\* C21: wherever an analysis message can be dispatched without a fatal error,
\* for every message: when the resulting status is toInit, toRun, changed,
\* saveImg, editImg or rewriteImgs the stored request fields are those of the
\* message and EngineState is analysis; when it is aborted or error the stored
\* request fields and EngineState are what they were.
C21_CaptureExactlyWhenPending ==
    /\ (Polled /\ engineState \in {"idle", "analysis"})
          => \A m \in AnalysisMsgs :
                LET e1 == receiveMessages(Eng, m)
                IN  IF e1.st \in {"toInit", "toRun", "changed", "saveImg", "editImg", "rewriteImgs"}
                    THEN /\ e1.opts = m.options
                         /\ e1.rev = m.revision
                         /\ e1.dmc = m.dynamicModuleCall
                         /\ e1.jr = (m.jaspResults \/ m.dynamicModuleCall # "")
                         /\ e1.es = "analysis"
                    ELSE /\ e1.st \in {"aborted", "error"}
                         /\ <<e1.opts, e1.rev, e1.dmc, e1.jr, e1.es>>
                               = <<analysisOptions, analysisRevision, dynamicModuleCall,
                                   analysisJaspResults, engineState>>
    /\ (step.msg = "analysis" /\ pc # "crashed")
          => IF step.stPost \in {"aborted", "error"}
             THEN step.esPost = step.esPre
             ELSE step.esPost = "analysis"

\* C21 witness: an analysis message with an unknown perform was dispatched
\* while the engine was idle, and the engine stayed idle with status error.
C21_Witness ==
    /\ step.site = "loop"
    /\ step.msg = "analysis"
    /\ step.stPost = "error"
    /\ step.esPre = "idle"
    /\ engineState = "idle"
    /\ analysisStatus = "error"

\* C22: when a message for the id of the running analysis is dispatched during
\* the runtime invocation and the resulting status is changed or aborted, the
\* stored options, revision and rich-results flag are still those the runtime
\* was invoked with.
C22_SameIdKeepsSnapshot ==
    (/\ step.msg = "analysis"
     /\ step.site \in {"callback", "poll"}
     /\ step.stPre = "running"
     /\ step.stPost \in {"changed", "aborted"}
     /\ pc = "runtime")
        => /\ analysisOptions = run.options
           /\ analysisRevision = run.revision
           /\ analysisJaspResults = run.rich

\* C22 amended: for every message for the current id that can be dispatched
\* while the status is running: when the resulting status is aborted the stored
\* options, revision, module call and rich-results flag are unchanged, and when
\* it is changed they are replaced by those of the message.
C22_SameIdAbortKeepsChangeReplaces ==
    (Polled /\ engineState \in {"idle", "analysis"} /\ analysisStatus = "running")
        => \A m \in AnalysisMsgs :
              m.id = analysisId
                  => LET e1 == receiveMessages(Eng, m)
                     IN  /\ e1.st \in {"changed", "aborted"}
                         /\ e1.id = analysisId
                         /\ e1.st = "aborted"
                               => <<e1.opts, e1.rev, e1.dmc, e1.jr>>
                                     = <<analysisOptions, analysisRevision, dynamicModuleCall,
                                         analysisJaspResults>>
                         /\ e1.st = "changed"
                               => <<e1.opts, e1.rev, e1.dmc, e1.jr>>
                                     = <<m.options, m.revision, m.dynamicModuleCall,
                                         m.jaspResults \/ m.dynamicModuleCall # "">>

\* C22 witness: the callback dispatched a message for the id of the running
\* analysis, the status became changed and the stored options are no longer
\* those the runtime was invoked with.
C22_Witness ==
    /\ step.site = "callback"
    /\ step.msg = "analysis"
    /\ step.stPre = "running"
    /\ step.stPost = "changed"
    /\ analysisId = run.id
    /\ analysisOptions # run.options
    /\ directive.status = "changed"
    /\ directive.options = analysisOptions

\* C23: when the main loop enters runAnalysis with status saveImg, editImg or
\* rewriteImgs, the iteration ends without a runtime invocation, with exactly
\* one response, an analysis response of the image operation under the current
\* id, and with status empty and EngineState idle; when it enters with status
\* empty or aborted, the iteration ends without a runtime invocation, with no
\* response, and with status empty and EngineState idle.
C23_ImageAndNoOpEntries ==
    /\ (step.site = "loop" /\ pc # "crashed" /\ step.esPost = "analysis"
            /\ step.stPost \in {"saveImg", "editImg", "rewriteImgs"})
          => /\ pc = "loop"
             /\ runDepth = 0
             /\ Len(out) = 1
             /\ out[1].typeRequest = "analysis"
             /\ out[1].kind = "image"
             /\ out[1].id = analysisId
             /\ out[1].revision = analysisRevision
             /\ analysisStatus = "empty"
             /\ engineState = "idle"
    /\ (step.site = "loop" /\ pc # "crashed" /\ step.esPost = "analysis"
            /\ step.stPost \in {"empty", "aborted"})
          => /\ pc = "loop"
             /\ runDepth = 0
             /\ out = <<>>
             /\ tmpOps = <<>>
             /\ analysisStatus = "empty"
             /\ engineState = "idle"

\* C23 witness: the main loop received a saveImg request while idle and
\* answered it in the same iteration.
C23_Witness ==
    /\ step.site = "loop"
    /\ step.msg = "analysis"
    /\ step.stPost = "saveImg"
    /\ Len(out) = 1
    /\ analysisStatus = "empty"
    /\ engineState = "idle"

\* runAnalysis neither drops the returned payload nor restarts the analysis
NormalReturn ==
    /\ step.site = "runAnalysis"
    /\ pc # "crashed"
    /\ ~SuppressesResults(hist.retStatus)
    /\ ~NeedsRestart(hist.retStatus, knowsAboutChange, analysisResultsString)

\* C24: on a normal return of the runtime runAnalysis ends with status empty
\* and EngineState idle; when the analysis is not a rich-results one it has sent
\* exactly one response, with status inited when the invocation was started
\* from toInit and complete otherwise, and when it is a rich-results one it has
\* sent no response.
C24_NormalReturn ==
    NormalReturn
        => /\ analysisStatus = "empty"
           /\ engineState = "idle"
           /\ IF analysisJaspResults
              THEN AnalysisResponses(out) = <<>>
              ELSE /\ Len(AnalysisResponses(out)) = 1
                   /\ AnalysisResponses(out)[1].status
                         = IF run.perform = "init" THEN "inited" ELSE "complete"

\* C25: a call of the poll hook that dispatches an analysis, pauseRequested or
\* stopRequested message while the status is running returns true.
C25_PollReportsInterruption ==
    (/\ step.site = "poll"
     /\ pc # "crashed"
     /\ step.msg \in {"analysis", "pauseRequested", "stopRequested"}
     /\ step.stPre = "running")
        => pollResult = TRUE

\* C26: when a callback of the runtime invocation returned the aborted
\* directive, runAnalysis sends no terminal response when that invocation
\* returns.
C26_AbortedNeverTerminal ==
    (step.site = "runAnalysis" /\ hist.toldAbort)
        => \A i \in 1..Len(out) : out[i].kind # "terminal"

\* C27: every intermediate or terminal analysis response carries the id and
\* the revision the runtime invocation in flight was started with.
C27_ResponseCarriesRunIdentity ==
    (step.site \in {"callback", "runAnalysis"} /\ pc # "crashed")
        => \A i \in 1..Len(AnalysisResponses(out)) :
              /\ AnalysisResponses(out)[i].id = run.id
              /\ AnalysisResponses(out)[i].revision = run.revision

\* C28: wherever the channel is polled, and at the switch of the main loop
\* after its dispatch, EngineState is idle, analysis, paused or stopped; hence
\* pauseRequested and stopRequested never take their fatal branch, and the main
\* loop never finds the state resuming or a state it has no case for.
C28_NoTransientStateObserved ==
    /\ Polled => engineState \in {"idle", "analysis", "paused", "stopped"}
    /\ Polled
          => /\ ~receiveMessages(Eng, [typeRequest |-> "pauseRequested"]).fatal
             /\ ~receiveMessages(Eng, [typeRequest |-> "stopRequested"]).fatal
    /\ step.site \in {"loop", "callback", "poll", "runAnalysis"}
          => /\ step.esPre \in {"idle", "analysis", "paused", "stopped"}
             /\ step.esPost \in {"idle", "analysis", "paused", "stopped"}
    /\ (step.msg \in {"pauseRequested", "stopRequested"}) => pc # "crashed"

\* C28 witness: the main loop handled a computeColumn message and its switch
\* found EngineState idle.
C28_Witness ==
    /\ step.site = "loop"
    /\ step.msg = "computeColumn"
    /\ step.esPost = "idle"
    /\ pc = "loop"
    /\ engineState = "idle"

====
